---------------------------- MODULE Spec2Model ----------------------------
(***************************************************************************)
(* A model of src/include/asr.h: the three transform stacks with their     *)
(* current-stack selector, the GPU geometry lifecycle, the shader program  *)
(* identifiers and the rendering calls, together with the part of the      *)
(* OpenGL device state these calls drive.                                  *)
(*                                                                         *)
(* glm::mat4 is column-major: a matrix is a 4-tuple of columns, a column a *)
(* 4-tuple of components.  Components are integers: the inputs enumerated  *)
(* below are integer translations, scales of +-1 and rotations by whole    *)
(* quarter turns, on which the float arithmetic of glm is exact.           *)
(***************************************************************************)
EXTENDS Integers, Sequences, FiniteSets, TLC

VARIABLES
    model_matrix_stack,           \* asr.h:96
    view_matrix_stack,            \* asr.h:97
    projection_matrix_stack,      \* asr.h:98
    current_matrix_stack,         \* asr.h:99, as the name of the stack pointed to
    current_gpu_geometry,         \* asr.h:83, NULL or the caller's object pointed to
    geometries,                   \* the caller's GPUGeometry objects (asr.h:74-81), by name
    shader,                       \* asr.h:48-52: program and the four locations
    rendering_start_time,         \* asr.h:105
    gl,                           \* the device state the calls drive
    gl_calls,                     \* the device commands issued by the latest call
    status,                       \* "running", "aborted" (assert) or "crashed"
    ncalls,                       \* number of calls made so far
    call,                         \* the latest call: its name and argument
    pre,                          \* the program state the latest call started from
    history                       \* what the calls so far were given

vars == <<model_matrix_stack, view_matrix_stack, projection_matrix_stack,
          current_matrix_stack, current_gpu_geometry, geometries, shader,
          rendering_start_time, gl, gl_calls, status, ncalls, call, pre,
          history>>

-----------------------------------------------------------------------------
(* Bounds of the exploration.                                              *)

MaxCalls == 5

-----------------------------------------------------------------------------
(* glm vectors and matrices.                                               *)

Vec4Add(a, b) == <<a[1] + b[1], a[2] + b[2], a[3] + b[3], a[4] + b[4]>>

Vec4Scale(a, k) == <<a[1] * k, a[2] * k, a[3] * k, a[4] * k>>

\* glm::mat4{1.0f}
IdentityMatrix ==
    << <<1, 0, 0, 0>>, <<0, 1, 0, 0>>, <<0, 0, 1, 0>>, <<0, 0, 0, 1>> >>

\* glm: mat4 * vec4, the linear combination of the columns of m
MatVec(m, v) ==
    Vec4Add(Vec4Add(Vec4Scale(m[1], v[1]), Vec4Scale(m[2], v[2])),
            Vec4Add(Vec4Scale(m[3], v[3]), Vec4Scale(m[4], v[4])))

\* glm: mat4 * mat4, column j of the product is a * (column j of b)
MatMul(a, b) == <<MatVec(a, b[1]), MatVec(a, b[2]), MatVec(a, b[3]), MatVec(a, b[4])>>

\* glm::translate(m, v): Result = m; Result[3] = m[0]*v[0] + m[1]*v[1] + m[2]*v[2] + m[3]
glm_translate(m, v) ==
    <<m[1], m[2], m[3],
      Vec4Add(Vec4Add(Vec4Scale(m[1], v[1]), Vec4Scale(m[2], v[2])),
              Vec4Add(Vec4Scale(m[3], v[3]), m[4]))>>

\* glm::scale(m, v): the first three columns scaled, the fourth kept
glm_scale(m, v) ==
    <<Vec4Scale(m[1], v[1]), Vec4Scale(m[2], v[2]), Vec4Scale(m[3], v[3]), m[4]>>

\* Angles are whole quarter turns (k * pi/2), whose cosine and sine are exact.
QuarterTurns == 0..3

Cos(k) == CASE k = 0 -> 1 [] k = 1 -> 0 [] k = 2 -> -1 [] k = 3 -> 0

Sin(k) == CASE k = 0 -> 0 [] k = 1 -> 1 [] k = 2 -> 0 [] k = 3 -> -1

\* glm::rotate(m, angle, axis) for a unit axis: the Rodrigues matrix Rotate
\* (c + temp[i]*axis[i] on the diagonal, temp[i]*axis[j] +- s*axis[k] off it),
\* then Result[i] = m[0]*Rotate[i][0] + m[1]*Rotate[i][1] + m[2]*Rotate[i][2]
\* and Result[3] = m[3].
glm_rotate(m, angle, axis) ==
    LET c == Cos(angle)
        s == Sin(angle)
        t == <<(1 - c) * axis[1], (1 - c) * axis[2], (1 - c) * axis[3]>>
        R == << <<c + t[1] * axis[1],
                  t[1] * axis[2] + s * axis[3],
                  t[1] * axis[3] - s * axis[2]>>,
                <<t[2] * axis[1] - s * axis[3],
                  c + t[2] * axis[2],
                  t[2] * axis[3] + s * axis[1]>>,
                <<t[3] * axis[1] + s * axis[2],
                  t[3] * axis[2] - s * axis[1],
                  c + t[3] * axis[3]>> >>
        Col(i) == Vec4Add(Vec4Add(Vec4Scale(m[1], R[i][1]), Vec4Scale(m[2], R[i][2])),
                          Vec4Scale(m[3], R[i][3]))
    IN  <<Col(1), Col(2), Col(3), m[4]>>

AxisX == <<1, 0, 0>>
AxisY == <<0, 1, 0>>
AxisZ == <<0, 0, 1>>


\* The 3x3 minor of m without row dr and column dc (component (r, c) is m[c][r]).
Others(k) == CASE k = 1 -> <<2, 3, 4>> [] k = 2 -> <<1, 3, 4>>
               [] k = 3 -> <<1, 2, 4>> [] k = 4 -> <<1, 2, 3>>

Minor(m, dr, dc) ==
    LET rs == Others(dr)
        cs == Others(dc)
        a(i, j) == m[cs[j]][rs[i]]
    IN  a(1, 1) * (a(2, 2) * a(3, 3) - a(2, 3) * a(3, 2))
        - a(1, 2) * (a(2, 1) * a(3, 3) - a(2, 3) * a(3, 1))
        + a(1, 3) * (a(2, 1) * a(3, 2) - a(2, 2) * a(3, 1))

Sign(i, j) == IF (i + j) % 2 = 0 THEN 1 ELSE -1

Determinant(m) ==
    m[1][1] * Minor(m, 1, 1) - m[2][1] * Minor(m, 1, 2)
    + m[3][1] * Minor(m, 1, 3) - m[4][1] * Minor(m, 1, 4)

\* 1 / Determinant, exact on the matrices enumerated here (determinant 1 or -1)
OneOverDeterminant(d) == CASE d = 1 -> 1 [] d = -1 -> -1

\* glm::inverse(m): the matrix of cofactors, transposed, times 1 / determinant
glm_inverse(m) ==
    LET k == OneOverDeterminant(Determinant(m))
        Inv(r, c) == Sign(r, c) * Minor(m, c, r) * k
    IN  << <<Inv(1, 1), Inv(2, 1), Inv(3, 1), Inv(4, 1)>>,
           <<Inv(1, 2), Inv(2, 2), Inv(3, 2), Inv(4, 2)>>,
           <<Inv(1, 3), Inv(2, 3), Inv(3, 3), Inv(4, 3)>>,
           <<Inv(1, 4), Inv(2, 4), Inv(3, 4), Inv(4, 4)>> >>

-----------------------------------------------------------------------------
(* The inputs the callers are given.                                       *)

\* glm::vec3 translation arguments
Translations == { <<1, 0, 0>> }

\* glm::vec3 rotation arguments (x, y, z), in quarter turns
Rotations == { <<1, 1, 1>> }

\* glm::vec3 scale arguments
Scales == { <<-1, 1, 1>> }

\* glm::mat4 arguments of load_matrix: a translation along z after a quarter
\* turn about z
MatrixA == glm_translate(glm_rotate(IdentityMatrix, 1, AxisZ), <<0, 0, 1>>)

LoadMatrices == { MatrixA }

\* What a read of a popped-out or never-written stack slot may hold.
GarbageMatrix == glm_scale(IdentityMatrix, <<1, 1, -1>>)

-----------------------------------------------------------------------------
(* std::stack<glm::mat4>                                                   *)

Empty(s) == Len(s) = 0

Top(s) == s[Len(s)]

Pop(s) == SubSeq(s, 1, Len(s) - 1)

Push(s, m) == Append(s, m)

MatrixModes == {"Model", "View", "Projection"}

\* *current_matrix_stack
CurrentStack ==
    CASE current_matrix_stack = "Model" -> model_matrix_stack
      [] current_matrix_stack = "View" -> view_matrix_stack
      [] current_matrix_stack = "Projection" -> projection_matrix_stack

\* SetCurrentStack with the pointer ignored: every write lands in the model stack.
SetCurrentStack_model_only(s) ==
    /\ model_matrix_stack' = s
    /\ UNCHANGED <<view_matrix_stack, projection_matrix_stack>>

\* A write through current_matrix_stack: the stack pointed to becomes s.
SetCurrentStack(s) ==
    /\ model_matrix_stack' =
           IF current_matrix_stack = "Model" THEN s ELSE model_matrix_stack
    /\ view_matrix_stack' =
           IF current_matrix_stack = "View" THEN s ELSE view_matrix_stack
    /\ projection_matrix_stack' =
           IF current_matrix_stack = "Projection" THEN s ELSE projection_matrix_stack

-----------------------------------------------------------------------------
(* The program state a call starts from, and the record of the call.       *)

NULL == "nullptr"

State ==
    [model |-> model_matrix_stack, view |-> view_matrix_stack,
     projection |-> projection_matrix_stack, mode |-> current_matrix_stack,
     current |-> current_gpu_geometry, geometries |-> geometries,
     shader |-> shader, start |-> rendering_start_time, gl |-> gl,
     status |-> status]

StackOf(st, mode) ==
    CASE mode = "Model" -> st.model
      [] mode = "View" -> st.view
      [] mode = "Projection" -> st.projection

\* The stack the latest call found selected, before and after the call.
PreStack == StackOf(pre, pre.mode)

PostStack == StackOf(State, pre.mode)

With(f, name, value) == [n \in DOMAIN f \cup {name} |-> IF n = name THEN value ELSE f[n]]

Without(f, name) == [n \in DOMAIN f \ {name} |-> f[n]]

\* What the calls so far were given: whether prepare_for_es2_rendering has
\* run, the mode of the latest set_matrix_mode, the arguments of the latest
\* generate_es2_gpu_geometry into each of the caller's objects, and the
\* arguments of the set_es2_gpu_geometry_current calls, in order.  For each
\* stack, `saved` holds what the stack was at each push_matrix since
\* prepare_for_es2_rendering that no pop_matrix has answered yet, and
\* `restores` is, right after a pop_matrix that answers a push_matrix, what
\* the stack was at that push_matrix (empty otherwise).
NoHistory ==
    [prepared |-> FALSE, mode |-> "Model", created |-> << >>, selections |-> << >>,
     saved |-> [mode \in MatrixModes |-> << >>], restores |-> << >>]

Called(op, arg, undefined) ==
    /\ call' = [op |-> op, arg |-> arg, ub |-> undefined]
    /\ pre' = State
    /\ ncalls' = ncalls + 1
    /\ history' =
         LET saved == history.saved[current_matrix_stack]
             h == [history EXCEPT !.restores = << >>]
         IN  CASE op = "prepare_for_es2_rendering" ->
                      [h EXCEPT !.prepared = TRUE, !.saved = NoHistory.saved]
               [] op = "set_matrix_mode" -> [h EXCEPT !.mode = arg]
               [] op = "generate_es2_gpu_geometry" ->
                      [h EXCEPT !.created = With(@, arg.object, arg.input)]
               [] op = "set_es2_gpu_geometry_current" ->
                      [h EXCEPT !.selections = Append(@, arg)]
               [] op = "push_matrix" /\ ~undefined ->
                      [h EXCEPT !.saved[current_matrix_stack] = Append(@, CurrentStack)]
               [] op = "pop_matrix" /\ ~undefined /\ saved # << >> ->
                      [h EXCEPT !.saved[current_matrix_stack] = Pop(saved),
                                !.restores = Top(saved)]
               [] OTHER -> h

CanCall == status = "running" /\ ncalls < MaxCalls

-----------------------------------------------------------------------------
(* Transformation (asr.h:377-474).  top() and pop() of an empty std::stack *)
(* are undefined: the process may crash, or go on with the stack empty or  *)
(* holding whatever the storage held.                                      *)

UndefinedStacks == { << >>, <<IdentityMatrix>>, <<GarbageMatrix>> }

NoDeviceCall ==
    /\ gl_calls' = << >>
    /\ UNCHANGED <<current_gpu_geometry, geometries, shader, rendering_start_time, gl>>

\* A call that applies top() or pop() to the empty stack pointed to.
UndefinedStackCall(op, arg) ==
    /\ Called(op, arg, TRUE)
    /\ NoDeviceCall
    /\ UNCHANGED current_matrix_stack
    /\ \/ /\ status' = "crashed"
          /\ UNCHANGED <<model_matrix_stack, view_matrix_stack, projection_matrix_stack>>
       \/ /\ status' = status
          /\ \E s \in UndefinedStacks : SetCurrentStack(s)

\* A call that leaves the non-empty stack pointed to as s.
StackCall(op, arg, s) ==
    /\ Called(op, arg, FALSE)
    /\ NoDeviceCall
    /\ UNCHANGED <<current_matrix_stack, status>>
    /\ SetCurrentStack(s)

set_matrix_mode(mode) ==
    /\ CanCall
    /\ current_matrix_stack' = mode
    /\ Called("set_matrix_mode", mode, FALSE)
    /\ NoDeviceCall
    /\ UNCHANGED <<model_matrix_stack, view_matrix_stack, projection_matrix_stack, status>>

\* translate_matrix on the stack pointed to
translated(s, translation) ==
    LET current_matrix == Top(s)
        translated_matrix == glm_translate(current_matrix, translation)
    IN  Push(Pop(s), translated_matrix)

translate_matrix(translation) ==
    /\ CanCall
    /\ IF Empty(CurrentStack)
       THEN UndefinedStackCall("translate_matrix", translation)
       ELSE StackCall("translate_matrix", translation,
                      translated(CurrentStack, translation))

\* rotated, with the rotations taken in the order x, y, z
rotated_x_first(s, rotation) ==
    LET current_matrix == Top(s)
        about_x == glm_rotate(current_matrix, rotation[1], AxisX)
        about_y == glm_rotate(about_x, rotation[2], AxisY)
        rotated_matrix == glm_rotate(about_y, rotation[3], AxisZ)
    IN  Push(Pop(s), rotated_matrix)

\* rotate_matrix on the stack pointed to: about y, then x, then z
rotated(s, rotation) ==
    LET current_matrix == Top(s)
        about_y == glm_rotate(current_matrix, rotation[2], AxisY)
        about_x == glm_rotate(about_y, rotation[1], AxisX)
        rotated_matrix == glm_rotate(about_x, rotation[3], AxisZ)
    IN  Push(Pop(s), rotated_matrix)

rotate_matrix(rotation) ==
    /\ CanCall
    /\ IF Empty(CurrentStack)
       THEN UndefinedStackCall("rotate_matrix", rotation)
       ELSE StackCall("rotate_matrix", rotation, rotated(CurrentStack, rotation))

\* scaled, pushing the scaled matrix without the pop of the top it replaces
scaled_without_pop(s, scale) ==
    LET current_matrix == Top(s)
        scaled_matrix == glm_scale(current_matrix, scale)
    IN  Push(s, scaled_matrix)

\* scale_matrix on the stack pointed to
scaled(s, scale) ==
    LET current_matrix == Top(s)
        scaled_matrix == glm_scale(current_matrix, scale)
    IN  Push(Pop(s), scaled_matrix)

scale_matrix(scale) ==
    /\ CanCall
    /\ IF Empty(CurrentStack)
       THEN UndefinedStackCall("scale_matrix", scale)
       ELSE StackCall("scale_matrix", scale, scaled(CurrentStack, scale))

\* loaded, multiplying the top by the matrix instead of replacing it
loaded_multiplied(s, matrix) == Push(Pop(s), MatMul(Top(s), matrix))

\* load_matrix on the stack pointed to
loaded(s, matrix) == Push(Pop(s), matrix)

load_matrix(matrix) ==
    /\ CanCall
    /\ IF Empty(CurrentStack)
       THEN UndefinedStackCall("load_matrix", matrix)
       ELSE StackCall("load_matrix", matrix, loaded(CurrentStack, matrix))

load_identity_matrix ==
    /\ CanCall
    /\ IF Empty(CurrentStack)
       THEN UndefinedStackCall("load_identity_matrix", IdentityMatrix)
       ELSE StackCall("load_identity_matrix", IdentityMatrix,
                      loaded(CurrentStack, IdentityMatrix))

\* pushed, pushing a fresh identity instead of a copy of the top
pushed_identity(s) == Push(s, IdentityMatrix)

\* push_matrix on the stack pointed to
pushed(s) ==
    LET top_matrix == Top(s)
    IN  Push(s, top_matrix)

push_matrix ==
    /\ CanCall
    /\ IF Empty(CurrentStack)
       THEN UndefinedStackCall("push_matrix", << >>)
       ELSE StackCall("push_matrix", << >>, pushed(CurrentStack))

\* popped, without the push of an identity into the emptied stack
popped_unguarded(s) == Pop(s)

\* popped, refusing to pop the last matrix instead of replacing it
popped_keeping_last(s) == IF Len(s) = 1 THEN s ELSE Pop(s)

\* pop_matrix on the stack pointed to
popped(s) ==
    LET after_pop == Pop(s)
    IN  IF Empty(after_pop) THEN Push(after_pop, IdentityMatrix) ELSE after_pop

pop_matrix ==
    /\ CanCall
    /\ IF Empty(CurrentStack)
       THEN UndefinedStackCall("pop_matrix", << >>)
       ELSE StackCall("pop_matrix", << >>, popped(CurrentStack))

-----------------------------------------------------------------------------
(* The OpenGL device, as far as asr.h drives it.  Object names are         *)
(* positive integers, 0 is "no object"; glGen* hands out the smallest name *)
(* not in use.                                                             *)

window_width == 500

window_height == 500

\* The readings of std::chrono::system_clock::now(), in milliseconds
Times == {1000, 2500}

\* A vertex array object as created by its first bind
NewVertexArray == [element_array_buffer |-> 0, attribs |-> {}]

\* A buffer object as created by its first bind: no data store yet
NewBuffer == [data_store |-> FALSE, size |-> 0]

InitialDevice ==
    [vertex_array_binding |-> 0,
     array_buffer_binding |-> 0,
     vertex_arrays |-> [n \in {0} |-> NewVertexArray],
     buffers |-> << >>,
     programs |-> << >>,
     current_program |-> 0,
     cull_face |-> FALSE,
     depth_test |-> FALSE,
     program_point_size |-> FALSE,
     line_width |-> 1,
     memory |-> "available",
     error |-> "GL_NO_ERROR"]

\* glGetError keeps the first error recorded
WithError(dev, e) ==
    IF dev.error = "GL_NO_ERROR" THEN [dev EXCEPT !.error = e] ELSE dev

\* The smallest positive name outside `used`
FreshName(used) == CHOOSE n \in 1..(Cardinality(used) + 1) :
                       n \notin used /\ \A k \in 1..(n - 1) : k \in used

\* glBindVertexArray(name): 0 and the names of live objects bind; any other
\* name is GL_INVALID_OPERATION and leaves the binding
glBindVertexArray(dev, name) ==
    IF name \in DOMAIN dev.vertex_arrays
    THEN [dev EXCEPT !.vertex_array_binding = name]
    ELSE WithError(dev, "GL_INVALID_OPERATION")

\* glDeleteVertexArrays(1, &name): unused names and 0 are silently ignored;
\* deleting the bound object binds 0
glDeleteVertexArrays(dev, name) ==
    IF name = 0 \/ name \notin DOMAIN dev.vertex_arrays
    THEN dev
    ELSE [dev EXCEPT !.vertex_arrays = Without(@, name),
                     !.vertex_array_binding = IF @ = name THEN 0 ELSE @]

\* glBindBuffer(GL_ARRAY_BUFFER, name)
glBindArrayBuffer(dev, name) == [dev EXCEPT !.array_buffer_binding = name]

\* glBindBuffer(GL_ELEMENT_ARRAY_BUFFER, name): state of the bound vertex array
glBindElementArrayBuffer(dev, name) ==
    [dev EXCEPT !.vertex_arrays[dev.vertex_array_binding].element_array_buffer = name]

\* glBufferData(target, size, data, GL_STATIC_DRAW) on buffer `name`: the data
\* store is created, or the device is out of memory
glBufferData(dev, name, size) ==
    IF dev.memory = "available"
    THEN [dev EXCEPT !.buffers[name] = [data_store |-> TRUE, size |-> size]]
    ELSE WithError(dev, "GL_OUT_OF_MEMORY")

\* glDeleteBuffers(1, &name)
glDeleteBuffers(dev, name) ==
    IF name = 0 \/ name \notin DOMAIN dev.buffers
    THEN dev
    ELSE [dev EXCEPT !.buffers = Without(@, name),
                     !.array_buffer_binding = IF @ = name THEN 0 ELSE @,
                     !.vertex_arrays = [v \in DOMAIN @ |->
                         IF v = dev.vertex_array_binding
                            /\ @[v].element_array_buffer = name
                         THEN [@[v] EXCEPT !.element_array_buffer = 0]
                         ELSE @[v]]]

\* glEnableVertexAttribArray(index); glVertexAttribPointer(index, size,
\* GL_FLOAT, GL_FALSE, stride, offset) on the bound vertex array, sourcing the
\* buffer bound to GL_ARRAY_BUFFER.  A location of -1 is index 2^32 - 1, which
\* no device has: GL_INVALID_VALUE, twice, and no attribute is recorded.
glVertexAttrib(dev, index, size, stride, offset) ==
    IF index < 0
    THEN WithError(dev, "GL_INVALID_VALUE")
    ELSE [dev EXCEPT !.vertex_arrays[dev.vertex_array_binding].attribs =
              {a \in @ : a.index # index}
              \cup {[index |-> index, size |-> size, stride |-> stride,
                     offset |-> offset, buffer |-> dev.array_buffer_binding]}]

\* glUseProgram(program): 0 and linked programs become current; a program
\* that failed to link is GL_INVALID_OPERATION
glUseProgram(dev, program) ==
    IF program = 0 \/ (program \in DOMAIN dev.programs /\ dev.programs[program].linked)
    THEN [dev EXCEPT !.current_program = program]
    ELSE WithError(dev, "GL_INVALID_OPERATION")

\* glDeleteProgram(program): 0 is ignored; the current program is only
\* flagged for deletion, any other is deleted
glDeleteProgram(dev, program) ==
    IF program = 0 \/ program \notin DOMAIN dev.programs \/ program = dev.current_program
    THEN dev
    ELSE [dev EXCEPT !.programs = Without(@, program)]

\* glUniform*(location, value): sets a uniform of the current program, where
\* it has that location; GL_INVALID_OPERATION otherwise
glUniform(dev, location, value) ==
    IF /\ dev.current_program # 0
       /\ location \in dev.programs[dev.current_program].locations
    THEN [dev EXCEPT !.programs[dev.current_program].uniforms =
              With(@, location, value)]
    ELSE WithError(dev, "GL_INVALID_OPERATION")

-----------------------------------------------------------------------------
(* Shader program handling (asr.h:186-266).  What compiling and linking    *)
(* the sources gives is the device's: whether the program linked, and the  *)
(* location it assigned to each of the four names (-1: not active).        *)

ShaderSources ==
    { [linked |-> TRUE, position |-> 0, color |-> 1, time |-> 0, mvp |-> 1],
      [linked |-> TRUE, position |-> 1, color |-> 0, time |-> -1, mvp |-> 0],
      [linked |-> FALSE, position |-> -1, color |-> -1, time |-> -1, mvp |-> -1] }

NoShader == [program |-> 0, position |-> -1, color |-> -1, time |-> -1, mvp |-> -1]

StacksUnchanged ==
    UNCHANGED <<model_matrix_stack, view_matrix_stack, projection_matrix_stack,
                current_matrix_stack>>

create_es2_shader_program(source) ==
    /\ CanCall
    /\ LET program == FreshName(DOMAIN gl.programs)
           created == [gl EXCEPT !.programs = With(@, program,
                          [linked |-> source.linked,
                           locations |-> {source.time, source.mvp} \ {-1},
                           uniforms |-> << >>])]
       IN  /\ gl' = IF source.linked THEN created
                    ELSE WithError(created, "GL_INVALID_OPERATION")
           /\ shader' = [program |-> program,
                         position |-> source.position,
                         color |-> source.color,
                         time |-> source.time,
                         mvp |-> source.mvp]
           /\ gl_calls' = <<<<"glCreateProgram", program>>, <<"glLinkProgram", program>>>>
    /\ Called("create_es2_shader_program", source, FALSE)
    /\ StacksUnchanged
    /\ UNCHANGED <<current_gpu_geometry, geometries, rendering_start_time, status>>

\* The identifiers destroy_es2_shader_program leaves
destroyed_shader(sh) ==
    [sh EXCEPT !.program = 0, !.position = -1, !.color = -1, !.time = -1]

destroy_es2_shader_program ==
    /\ CanCall
    /\ gl' = glDeleteProgram(glUseProgram(gl, 0), shader.program)
    /\ shader' = destroyed_shader(shader)
    /\ gl_calls' = <<<<"glUseProgram", 0>>, <<"glDeleteProgram", shader.program>>>>
    /\ Called("destroy_es2_shader_program", << >>, FALSE)
    /\ StacksUnchanged
    /\ UNCHANGED <<current_gpu_geometry, geometries, rendering_start_time, status>>

-----------------------------------------------------------------------------
(* GPU geometry handling (asr.h:272-375).  The GPUGeometry objects are the *)
(* caller's: generate_es2_gpu_geometry returns one by value, which the     *)
(* caller keeps in one of its variables, and the other calls are given a   *)
(* pointer or a reference to such a variable.                              *)

GeometryObjects == {"a", "b"}

\* The arguments of generate_es2_gpu_geometry: the type, and the sizes of the
\* vertex and index vectors
GeometryInputs ==
    { [type |-> "Triangles", vertices |-> 3, indices |-> 3],
      [type |-> "TriangleFan", vertices |-> 4, indices |-> 6] }

convert_geometry_type_to_es2_geometry_type(type) ==
    CASE type = "Points" -> "GL_POINTS"
      [] type = "Lines" -> "GL_LINES"
      [] type = "LineLoop" -> "GL_LINE_LOOP"
      [] type = "LineStrip" -> "GL_LINE_STRIP"
      [] type = "Triangles" -> "GL_TRIANGLES"
      [] type = "TriangleFan" -> "GL_TRIANGLE_FAN"
      [] type = "TriangleStrip" -> "GL_TRIANGLE_STRIP"
      [] OTHER -> "GL_TRIANGLES"

\* sizeof(float), sizeof(unsigned int) and the floats of a Vertex
SizeofFloat == 4

SizeofUnsignedInt == 4

VertexFloats == 7

\* The device after generate_es2_gpu_geometry, and the names it generated
GeneratedNames(dev) ==
    LET vertex_array_object == FreshName(DOMAIN dev.vertex_arrays \ {0})
        vertex_buffer_object == FreshName(DOMAIN dev.buffers)
        index_buffer_object == FreshName(DOMAIN dev.buffers \cup {vertex_buffer_object})
    IN  [vertex_array_object |-> vertex_array_object,
         vertex_buffer_object |-> vertex_buffer_object,
         index_buffer_object |-> index_buffer_object]

GeneratedDevice(dev, sh, input, names) ==
    LET d1 == [dev EXCEPT !.vertex_arrays =
                   With(@, names.vertex_array_object, NewVertexArray)]
        d2 == glBindVertexArray(d1, names.vertex_array_object)
        d3 == [d2 EXCEPT !.buffers = With(@, names.vertex_buffer_object, NewBuffer)]
        d4 == glBindArrayBuffer(d3, names.vertex_buffer_object)
        d5 == glBufferData(d4, names.vertex_buffer_object,
                           input.vertices * VertexFloats * SizeofFloat)
        d6 == [d5 EXCEPT !.buffers = With(@, names.index_buffer_object, NewBuffer)]
        d7 == glBindElementArrayBuffer(d6, names.index_buffer_object)
        d8 == glBufferData(d7, names.index_buffer_object,
                           input.indices * SizeofUnsignedInt)
        stride == SizeofFloat * VertexFloats
        d9 == glVertexAttrib(d8, sh.position, 3, stride, 0)
        d10 == glVertexAttrib(d9, sh.color, 4, stride, SizeofFloat * 3)
        d11 == glBindVertexArray(d10, 0)
        d12 == glBindArrayBuffer(d11, 0)
    IN  glBindElementArrayBuffer(d12, 0)

\* GeneratedGeometry, counting the vertices instead of the indices
GeneratedGeometry_counting_vertices(input, names) ==
    [type |-> input.type,
     vertex_count |-> input.vertices,
     vertex_array_object |-> names.vertex_array_object,
     vertex_buffer_object |-> names.vertex_buffer_object,
     index_buffer_object |-> names.index_buffer_object]

\* The GPUGeometry generate_es2_gpu_geometry returns
GeneratedGeometry(input, names) ==
    [type |-> input.type,
     vertex_count |-> input.indices,
     vertex_array_object |-> names.vertex_array_object,
     vertex_buffer_object |-> names.vertex_buffer_object,
     index_buffer_object |-> names.index_buffer_object]

\* geometry = generate_es2_gpu_geometry(type, vertices, indices), with
\* `geometry` the caller's variable g
generate_es2_gpu_geometry(g, input) ==
    /\ CanCall
    /\ LET names == GeneratedNames(gl)
       IN  /\ gl' = GeneratedDevice(gl, shader, input, names)
           /\ geometries' = With(geometries, g, GeneratedGeometry(input, names))
           /\ gl_calls' = <<<<"glGenVertexArrays", names.vertex_array_object>>,
                            <<"glGenBuffers", names.vertex_buffer_object>>,
                            <<"glBufferData", "GL_ARRAY_BUFFER", gl.memory>>,
                            <<"glGenBuffers", names.index_buffer_object>>,
                            <<"glBufferData", "GL_ELEMENT_ARRAY_BUFFER", gl.memory>>>>
    /\ Called("generate_es2_gpu_geometry", [object |-> g, input |-> input], FALSE)
    /\ StacksUnchanged
    /\ UNCHANGED <<current_gpu_geometry, shader, rendering_start_time, status>>

\* set_es2_gpu_geometry_current(&g), or (nullptr) with g = NULL
set_es2_gpu_geometry_current(g) ==
    /\ CanCall
    /\ g # NULL => g \in DOMAIN geometries
    /\ current_gpu_geometry' = g
    /\ LET name == IF g # NULL THEN geometries[g].vertex_array_object ELSE 0
       IN  /\ gl' = glBindVertexArray(gl, name)
           /\ gl_calls' = <<<<"glBindVertexArray", name>>>>
    /\ Called("set_es2_gpu_geometry_current", g, FALSE)
    /\ StacksUnchanged
    /\ UNCHANGED <<geometries, shader, rendering_start_time, status>>

\* destroyed_geometry, with the index buffer handle left as it was
destroyed_geometry_partly(geometry) ==
    [geometry EXCEPT !.vertex_array_object = 0,
                     !.vertex_buffer_object = 0]

\* The GPUGeometry destroy_es2_gpu_geometry leaves behind its reference
destroyed_geometry(geometry) ==
    [geometry EXCEPT !.vertex_array_object = 0,
                     !.vertex_buffer_object = 0,
                     !.index_buffer_object = 0]

\* destroy_es2_gpu_geometry, releasing and resetting the object selected as
\* current instead of the one it is given
destroy_es2_gpu_geometry_of_current(g) ==
    /\ CanCall
    /\ g \in DOMAIN geometries
    /\ current_gpu_geometry \in DOMAIN geometries
    /\ LET geometry == geometries[current_gpu_geometry]
           d1 == glDeleteVertexArrays(glBindVertexArray(gl, 0), geometry.vertex_array_object)
           d2 == glDeleteBuffers(glBindArrayBuffer(d1, 0), geometry.vertex_buffer_object)
           d3 == glDeleteBuffers(glBindElementArrayBuffer(d2, 0), geometry.index_buffer_object)
       IN  /\ gl' = d3
           /\ geometries' = [geometries EXCEPT ![current_gpu_geometry] =
                                 destroyed_geometry(geometry)]
           /\ gl_calls' = <<<<"glDeleteVertexArrays", geometry.vertex_array_object>>,
                            <<"glDeleteBuffers", geometry.vertex_buffer_object>>,
                            <<"glDeleteBuffers", geometry.index_buffer_object>>>>
    /\ Called("destroy_es2_gpu_geometry", g, FALSE)
    /\ StacksUnchanged
    /\ UNCHANGED <<current_gpu_geometry, shader, rendering_start_time, status>>

\* destroy_es2_gpu_geometry(g)
destroy_es2_gpu_geometry(g) ==
    /\ CanCall
    /\ g \in DOMAIN geometries
    /\ LET geometry == geometries[g]
           d1 == glDeleteVertexArrays(glBindVertexArray(gl, 0), geometry.vertex_array_object)
           d2 == glDeleteBuffers(glBindArrayBuffer(d1, 0), geometry.vertex_buffer_object)
           d3 == glDeleteBuffers(glBindElementArrayBuffer(d2, 0), geometry.index_buffer_object)
       IN  /\ gl' = d3
           /\ geometries' = [geometries EXCEPT ![g] = destroyed_geometry(geometry)]
           /\ gl_calls' = <<<<"glDeleteVertexArrays", geometry.vertex_array_object>>,
                            <<"glDeleteBuffers", geometry.vertex_buffer_object>>,
                            <<"glDeleteBuffers", geometry.index_buffer_object>>>>
    /\ Called("destroy_es2_gpu_geometry", g, FALSE)
    /\ StacksUnchanged
    /\ UNCHANGED <<current_gpu_geometry, shader, rendering_start_time, status>>

-----------------------------------------------------------------------------
(* Rendering (asr.h:476-569).                                              *)

RECURSIVE emptied(_)
\* while (!stack.empty()) stack.pop();
emptied(s) == IF Empty(s) THEN s ELSE emptied(Pop(s))

\* reset, without the loop that empties the stack
reset_without_emptying(s) == Push(s, IdentityMatrix)

\* A stack as prepare_for_es2_rendering leaves it
reset(s) == Push(emptied(s), IdentityMatrix)

prepare_for_es2_rendering(now) ==
    /\ CanCall
    /\ gl' = [gl EXCEPT !.program_point_size = TRUE]
    /\ gl_calls' = <<<<"glClearColor", 0, 0, 0, 0>>,
                     <<"glViewport", 0, 0, window_width, window_height>>,
                     <<"glEnable", "GL_PROGRAM_POINT_SIZE">>>>
    /\ model_matrix_stack' = reset(model_matrix_stack)
    /\ view_matrix_stack' = reset(view_matrix_stack)
    /\ projection_matrix_stack' = reset(projection_matrix_stack)
    /\ rendering_start_time' = now
    /\ Called("prepare_for_es2_rendering", now, FALSE)
    /\ UNCHANGED <<current_matrix_stack, current_gpu_geometry, geometries, shader, status>>

\* A call that touches the device alone
DeviceCall(op, arg, device, commands) ==
    /\ CanCall
    /\ gl' = device
    /\ gl_calls' = commands
    /\ Called(op, arg, FALSE)
    /\ StacksUnchanged
    /\ UNCHANGED <<current_gpu_geometry, geometries, shader, rendering_start_time, status>>

\* prepare_to_render_es2_frame, resetting the stacks as the session start does
prepare_to_render_es2_frame_resetting ==
    /\ CanCall
    /\ gl_calls' = <<<<"glClear", "GL_COLOR_BUFFER_BIT", "GL_DEPTH_BUFFER_BIT">>>>
    /\ model_matrix_stack' = reset(model_matrix_stack)
    /\ view_matrix_stack' = reset(view_matrix_stack)
    /\ projection_matrix_stack' = reset(projection_matrix_stack)
    /\ Called("prepare_to_render_es2_frame", << >>, FALSE)
    /\ UNCHANGED <<current_matrix_stack, current_gpu_geometry, geometries, shader,
                   rendering_start_time, gl, status>>

prepare_to_render_es2_frame ==
    DeviceCall("prepare_to_render_es2_frame", << >>, gl,
               <<<<"glClear", "GL_COLOR_BUFFER_BIT", "GL_DEPTH_BUFFER_BIT">>>>)

LineWidths == {2}

set_es2_line_width(line_width) ==
    DeviceCall("set_es2_line_width", line_width, [gl EXCEPT !.line_width = line_width],
               <<<<"glLineWidth", line_width>>>>)

enable_face_culling ==
    DeviceCall("enable_face_culling", << >>, [gl EXCEPT !.cull_face = TRUE],
               <<<<"glEnable", "GL_CULL_FACE">>, <<"glFrontFace", "GL_CCW">>,
                 <<"glCullFace", "GL_BACK">>>>)

disable_face_culling ==
    DeviceCall("disable_face_culling", << >>, [gl EXCEPT !.cull_face = FALSE],
               <<<<"glDisable", "GL_CULL_FACE">>>>)

enable_depth_test ==
    DeviceCall("enable_depth_test", << >>, [gl EXCEPT !.depth_test = TRUE],
               <<<<"glEnable", "GL_DEPTH_TEST">>, <<"glDepthFunc", "GL_LESS">>>>)

disable_depth_test ==
    DeviceCall("disable_depth_test", << >>, [gl EXCEPT !.depth_test = FALSE],
               <<<<"glDisable", "GL_DEPTH_TEST">>>>)

finish_es2_frame_rendering ==
    DeviceCall("finish_es2_frame_rendering", << >>, gl, <<<<"SDL_GL_SwapWindow">>>>)

\* time / 1000.0 for a count of milliseconds
Seconds(milliseconds) == [milliseconds |-> milliseconds, per |-> 1000]

\* What stack.top() may give: the top, or for an empty stack (undefined)
\* whatever the storage holds
TopReads(s) == IF Empty(s) THEN {IdentityMatrix, GarbageMatrix} ELSE {Top(s)}

\* model_view_projection, with the view stack's top taken as it is
model_view_projection_without_inverse(model_top, view_top, projection_top) ==
    LET model_matrix == model_top
        view_matrix == view_top
        projection_matrix == projection_top
    IN  MatMul(MatMul(projection_matrix, view_matrix), model_matrix)

\* projection_matrix * view_matrix * model_matrix, view_matrix the inverse
\* of the view stack's top
model_view_projection(model_top, view_top, projection_top) ==
    LET model_matrix == model_top
        view_matrix == glm_inverse(view_top)
        projection_matrix == projection_top
    IN  MatMul(MatMul(projection_matrix, view_matrix), model_matrix)

\* The device commands of render_current_es2_gpu_geometry past its assertion
RenderCommands(sh, geometry, seconds, mvp, vertex_array) ==
    <<<<"glUseProgram", sh.program>>>>
    \o (IF sh.time # -1 THEN <<<<"glUniform1f", sh.time, seconds>>>> ELSE << >>)
    \o (IF sh.mvp # -1 THEN <<<<"glUniformMatrix4fv", sh.mvp, mvp>>>> ELSE << >>)
    \o <<<<"glDrawElements", convert_geometry_type_to_es2_geometry_type(geometry.type),
           geometry.vertex_count, "GL_UNSIGNED_INT", vertex_array>>>>

RenderedDevice(dev, sh, seconds, mvp) ==
    LET d1 == glUseProgram(dev, sh.program)
        d2 == IF sh.time # -1 THEN glUniform(d1, sh.time, seconds) ELSE d1
    IN  IF sh.mvp # -1 THEN glUniform(d2, sh.mvp, mvp) ELSE d2

\* assertion_fails with the assertion compiled out
assertion_compiled_out(pointer) == FALSE

\* assert(pointer) fails
assertion_fails(pointer) == pointer = NULL

render_current_es2_gpu_geometry ==
    /\ CanCall
    /\ StacksUnchanged
    /\ UNCHANGED <<current_gpu_geometry, geometries, shader, rendering_start_time>>
    /\ IF assertion_fails(current_gpu_geometry)
       THEN \* abort()
            /\ status' = "aborted"
            /\ gl_calls' = << >>
            /\ UNCHANGED gl
            /\ Called("render_current_es2_gpu_geometry", << >>, FALSE)
       ELSE IF current_gpu_geometry = NULL
       THEN \* past the assertion, current_gpu_geometry->type reads through nullptr
            /\ status' = "crashed"
            /\ gl' = glUseProgram(gl, shader.program)
            /\ gl_calls' = <<<<"glUseProgram", shader.program>>>>
            /\ Called("render_current_es2_gpu_geometry", << >>, TRUE)
       ELSE LET reads_top == shader.mvp # -1
                undefined == reads_top /\ (\/ Empty(model_matrix_stack)
                                           \/ Empty(view_matrix_stack)
                                           \/ Empty(projection_matrix_stack))
            IN  /\ Called("render_current_es2_gpu_geometry", << >>, undefined)
                /\ \/ /\ undefined
                      /\ status' = "crashed"
                      /\ gl' = glUseProgram(gl, shader.program)
                      /\ gl_calls' = <<<<"glUseProgram", shader.program>>>>
                   \/ \E now \in Times :
                      \E m \in IF reads_top THEN TopReads(model_matrix_stack) ELSE {IdentityMatrix},
                         v \in IF reads_top THEN TopReads(view_matrix_stack) ELSE {IdentityMatrix},
                         p \in IF reads_top THEN TopReads(projection_matrix_stack) ELSE {IdentityMatrix} :
                          LET seconds == Seconds(now - rendering_start_time)
                              mvp == model_view_projection(m, v, p)
                          IN  /\ status' = status
                              /\ gl' = RenderedDevice(gl, shader, seconds, mvp)
                              /\ gl_calls' = RenderCommands(shader,
                                                 geometries[current_gpu_geometry],
                                                 seconds, mvp, gl.vertex_array_binding)

-----------------------------------------------------------------------------
(* The state at process start: the stacks are empty (asr.h:96-98), the     *)
(* current stack is the model stack (asr.h:99), nothing is selected        *)
(* (asr.h:83), no shader is created (asr.h:48-52).                         *)

Init ==
    /\ model_matrix_stack = << >>
    /\ view_matrix_stack = << >>
    /\ projection_matrix_stack = << >>
    /\ current_matrix_stack = "Model"
    /\ current_gpu_geometry = NULL
    /\ geometries = << >>
    /\ shader = NoShader
    /\ rendering_start_time = 0
    /\ gl = InitialDevice
    /\ gl_calls = << >>
    /\ status = "running"
    /\ ncalls = 0
    /\ call = [op |-> "none", arg |-> << >>, ub |-> FALSE]
    /\ pre = [model |-> << >>, view |-> << >>, projection |-> << >>,
              mode |-> "Model", current |-> NULL,
              geometries |-> << >>,
              shader |-> NoShader, start |-> 0, gl |-> InitialDevice,
              status |-> "running"]
    /\ history = NoHistory

\* The device runs out of memory for data stores: not a call of the program,
\* an event of its environment.
device_out_of_memory ==
    /\ status = "running"
    /\ gl.memory = "available"
    /\ gl' = [gl EXCEPT !.memory = "exhausted"]
    /\ StacksUnchanged
    /\ UNCHANGED <<current_gpu_geometry, geometries, shader, rendering_start_time,
                   gl_calls, status, ncalls, call, pre, history>>

\* The calls on the transform stacks
NextTransform ==
    \/ \E now \in Times : prepare_for_es2_rendering(now)
    \/ \E mode \in MatrixModes : set_matrix_mode(mode)
    \/ \E translation \in Translations : translate_matrix(translation)
    \/ \E rotation \in Rotations : rotate_matrix(rotation)
    \/ \E scale \in Scales : scale_matrix(scale)
    \/ \E matrix \in LoadMatrices : load_matrix(matrix)
    \/ load_identity_matrix
    \/ push_matrix
    \/ pop_matrix

SpecTransform == Init /\ [][NextTransform]_vars


\* The calls on GPU geometry, and the draw
NextGeometry ==
    \/ \E g \in GeometryObjects, input \in GeometryInputs :
           generate_es2_gpu_geometry(g, input)
    \/ \E g \in GeometryObjects \cup {NULL} : set_es2_gpu_geometry_current(g)
    \/ \E g \in GeometryObjects : destroy_es2_gpu_geometry(g)
    \/ render_current_es2_gpu_geometry
    \/ device_out_of_memory

SpecGeometry == Init /\ [][NextGeometry]_vars

\* A rendering session: the stacks are reset and transformed, a shader is
\* created, one geometry is generated and selected, frames are rendered
NextSession ==
    \/ \E now \in Times : prepare_for_es2_rendering(now)
    \/ \E mode \in MatrixModes : set_matrix_mode(mode)
    \/ \E translation \in Translations : translate_matrix(translation)
    \/ push_matrix
    \/ \E source \in ShaderSources : create_es2_shader_program(source)
    \/ \E input \in GeometryInputs : generate_es2_gpu_geometry("a", input)
    \/ \E g \in {"a", NULL} : set_es2_gpu_geometry_current(g)
    \/ prepare_to_render_es2_frame
    \/ render_current_es2_gpu_geometry
    \/ finish_es2_frame_rendering

SpecSession == Init /\ [][NextSession]_vars

\* The device flags and the shader program around a draw: the session
\* start, the culling and depth-test switches, a shader created and
\* destroyed, one geometry generated, selected and drawn
NextDevice ==
    \/ \E now \in Times : prepare_for_es2_rendering(now)
    \/ enable_face_culling
    \/ disable_face_culling
    \/ enable_depth_test
    \/ disable_depth_test
    \/ \E source \in ShaderSources : create_es2_shader_program(source)
    \/ destroy_es2_shader_program
    \/ \E input \in GeometryInputs : generate_es2_gpu_geometry("a", input)
    \/ set_es2_gpu_geometry_current("a")
    \/ render_current_es2_gpu_geometry

SpecDevice == Init /\ [][NextDevice]_vars

\* The program state a started session is in: prepare_for_es2_rendering,
\* create_es2_shader_program (sources that link), generate_es2_gpu_geometry
\* into the caller's object a and set_es2_gpu_geometry_current(&a) have been
\* called, once each and in this order, from process start.
StartedSession(source, input, now) ==
    LET prepared == [InitialDevice EXCEPT !.program_point_size = TRUE]
        program == FreshName(DOMAIN prepared.programs)
        created == [prepared EXCEPT !.programs = With(@, program,
                       [linked |-> source.linked,
                        locations |-> {source.time, source.mvp} \ {-1},
                        uniforms |-> << >>])]
        identifiers == [program |-> program,
                        position |-> source.position,
                        color |-> source.color,
                        time |-> source.time,
                        mvp |-> source.mvp]
        names == GeneratedNames(created)
        generated == GeneratedDevice(created, identifiers, input, names)
        geometry == GeneratedGeometry(input, names)
    IN  [model |-> reset(<< >>), view |-> reset(<< >>), projection |-> reset(<< >>),
         mode |-> "Model", current |-> "a",
         geometries |-> With(<< >>, "a", geometry),
         shader |-> identifiers, start |-> now,
         gl |-> glBindVertexArray(generated, geometry.vertex_array_object),
         status |-> "running"]

InitDraw ==
    \E source \in {s \in ShaderSources : s.linked}, input \in GeometryInputs, now \in Times :
        LET started == StartedSession(source, input, now)
        IN  /\ model_matrix_stack = started.model
            /\ view_matrix_stack = started.view
            /\ projection_matrix_stack = started.projection
            /\ current_matrix_stack = started.mode
            /\ current_gpu_geometry = started.current
            /\ geometries = started.geometries
            /\ shader = started.shader
            /\ rendering_start_time = started.start
            /\ gl = started.gl
            /\ gl_calls = << >>
            /\ status = started.status
            /\ ncalls = 0
            /\ call = [op |-> "none", arg |-> << >>, ub |-> FALSE]
            /\ pre = started
            /\ history = [NoHistory EXCEPT !.prepared = TRUE,
                                           !.created = With(<< >>, "a", input),
                                           !.selections = <<"a">>]

\* The frames of a started session: the stacks are transformed and the
\* selected geometry is drawn
NextDraw ==
    \/ \E mode \in MatrixModes : set_matrix_mode(mode)
    \/ \E translation \in Translations : translate_matrix(translation)
    \/ \E rotation \in Rotations : rotate_matrix(rotation)
    \/ push_matrix
    \/ pop_matrix
    \/ render_current_es2_gpu_geometry

SpecDraw == InitDraw /\ [][NextDraw]_vars

\* Every call of the header
Next ==
    \/ NextTransform
    \/ NextGeometry
    \/ \E source \in ShaderSources : create_es2_shader_program(source)
    \/ destroy_es2_shader_program
    \/ prepare_to_render_es2_frame
    \/ finish_es2_frame_rendering
    \/ \E line_width \in LineWidths : set_es2_line_width(line_width)
    \/ enable_face_culling
    \/ disable_face_culling
    \/ enable_depth_test
    \/ disable_depth_test

Spec == Init /\ [][Next]_vars

-----------------------------------------------------------------------------
(* Properties of the transform stacks, checked under SpecTransform.        *)

StackCalls == {"translate_matrix", "rotate_matrix", "scale_matrix", "load_matrix",
               "load_identity_matrix", "push_matrix", "pop_matrix"}

\* C1: once prepare_for_es2_rendering has run, each of the model, view and
\* projection stacks holds at least one matrix, whatever set_matrix_mode,
\* push, pop, load, translate, rotate and scale calls follow.
C1_StacksNeverEmptyAfterPrepare ==
    history.prepared =>
        /\ Len(model_matrix_stack) >= 1
        /\ Len(view_matrix_stack) >= 1
        /\ Len(projection_matrix_stack) >= 1

\* pop_matrix has just run, after prepare_for_es2_rendering, on a stack other
\* than the model stack that held a single matrix
C1_Witness ==
    /\ history.prepared
    /\ call.op = "pop_matrix"
    /\ pre.mode # "Model"
    /\ Len(PreStack) = 1

\* C2: pop_matrix on a current stack of depth 1 leaves it as [identity]
\* whatever the matrix was; on a current stack of depth n > 1 it leaves the
\* n - 1 lower matrices, unchanged and in order.
C2_PopMatrix ==
    (call.op = "pop_matrix" /\ ~call.ub) =>
        /\ Len(PreStack) = 1 => PostStack = <<IdentityMatrix>>
        /\ Len(PreStack) > 1 =>
               /\ Len(PostStack) = Len(PreStack) - 1
               /\ \A i \in 1..Len(PostStack) : PostStack[i] = PreStack[i]

\* pop_matrix has just run on a stack whose single matrix was not the identity
C2_Witness ==
    /\ call.op = "pop_matrix"
    /\ ~call.ub
    /\ Len(PreStack) = 1
    /\ PreStack[1] # IdentityMatrix

\* C3: push_matrix on a non-empty current stack makes it one deeper, the new
\* top equal to the top before, every matrix that was on it unchanged beneath.
C3_PushMatrix ==
    (call.op = "push_matrix" /\ ~call.ub) =>
        /\ Len(PostStack) = Len(PreStack) + 1
        /\ PostStack[Len(PostStack)] = PreStack[Len(PreStack)]
        /\ \A i \in 1..Len(PreStack) : PostStack[i] = PreStack[i]

\* push_matrix has just run on a stack of two different matrices
C3_Witness ==
    /\ call.op = "push_matrix"
    /\ ~call.ub
    /\ Len(PreStack) = 2
    /\ PreStack[1] # PreStack[2]
    /\ PreStack[2] # IdentityMatrix

\* C4: load_matrix(M) (and load_identity_matrix, M the identity) on a
\* non-empty current stack leaves M on top, the depth as it was and the
\* matrices below the top unchanged.
C4_LoadMatrix ==
    (call.op \in {"load_matrix", "load_identity_matrix"} /\ ~call.ub) =>
        /\ Len(PostStack) = Len(PreStack)
        /\ PostStack[Len(PostStack)] = call.arg
        /\ \A i \in 1..(Len(PreStack) - 1) : PostStack[i] = PreStack[i]

\* load_matrix has just replaced a top that was neither the identity nor the
\* matrix loaded, on a stack of depth two
C4_Witness ==
    /\ call.op = "load_matrix"
    /\ ~call.ub
    /\ Len(PreStack) = 2
    /\ PreStack[2] # call.arg
    /\ PreStack[2] # IdentityMatrix

\* C5: set_matrix_mode changes the selector alone and leaves the three stacks
\* as they were; a push, pop, load, translate, rotate or scale call leaves
\* the selector and the two stacks not selected by the latest
\* set_matrix_mode (Model if there was none) as they were.
C5_OnlyCurrentStackChanges ==
    /\ call.op = "set_matrix_mode" =>
           /\ current_matrix_stack = call.arg
           /\ [State EXCEPT !.mode = pre.mode] = pre
    /\ call.op \in StackCalls =>
           /\ current_matrix_stack = history.mode
           /\ \A mode \in MatrixModes \ {history.mode} :
                  StackOf(State, mode) = StackOf(pre, mode)
           /\ [State EXCEPT !.model = pre.model, !.view = pre.view,
                            !.projection = pre.projection, !.status = pre.status] = pre

\* translate_matrix has just changed the view stack while the model stack
\* holds a matrix other than the identity
C5_Witness ==
    /\ call.op = "translate_matrix"
    /\ ~call.ub
    /\ history.mode = "View"
    /\ view_matrix_stack # pre.view
    /\ Len(model_matrix_stack) = 1
    /\ model_matrix_stack[1] # IdentityMatrix

\* C6: prepare_for_es2_rendering, in whatever state and however often it is
\* called, leaves each of the three stacks as [identity].
C6_PrepareResetsStacks ==
    call.op = "prepare_for_es2_rendering" =>
        /\ model_matrix_stack = <<IdentityMatrix>>
        /\ view_matrix_stack = <<IdentityMatrix>>
        /\ projection_matrix_stack = <<IdentityMatrix>>

\* prepare_for_es2_rendering has just run a second time, on a model stack of
\* depth two with a top other than the identity
C6_Witness ==
    /\ call.op = "prepare_for_es2_rendering"
    /\ pre.start # 0
    /\ Len(pre.model) = 2
    /\ pre.model[2] # IdentityMatrix

-----------------------------------------------------------------------------
(* Properties of the frame calls, checked under SpecSession.               *)

FrameCalls == {"prepare_to_render_es2_frame", "render_current_es2_gpu_geometry",
               "finish_es2_frame_rendering"}

\* The latest call issued a draw
DrawIssued == \E i \in 1..Len(gl_calls) : gl_calls[i][1] = "glDrawElements"

\* C7: prepare_to_render_es2_frame, render_current_es2_gpu_geometry and
\* finish_es2_frame_rendering leave the three stacks, the current-stack
\* selector, the current geometry selection and the rendering start time as
\* they were.
C7_FrameCallsKeepTransformState ==
    call.op \in FrameCalls =>
        /\ model_matrix_stack = pre.model
        /\ view_matrix_stack = pre.view
        /\ projection_matrix_stack = pre.projection
        /\ current_matrix_stack = pre.mode
        /\ current_gpu_geometry = pre.current
        /\ rendering_start_time = pre.start

\* render_current_es2_gpu_geometry has just drawn the selected geometry in a
\* session whose model stack holds a translation
C7_Witness ==
    /\ call.op = "render_current_es2_gpu_geometry"
    /\ status = "running"
    /\ DrawIssued
    /\ history.prepared
    /\ rendering_start_time # 0
    /\ current_gpu_geometry # NULL
    /\ model_matrix_stack = <<glm_translate(IdentityMatrix, <<1, 0, 0>>)>>

-----------------------------------------------------------------------------
(* Properties of the geometry lifecycle, checked under SpecGeometry.       *)

\* The argument of the latest set_es2_gpu_geometry_current call
LatestSelection ==
    IF history.selections = << >> THEN NULL
    ELSE history.selections[Len(history.selections)]

\* C8: render_current_es2_gpu_geometry with no geometry selected stops the
\* process at its assertion: no shader is activated, no uniform written, no
\* draw issued, and the call does not return.
C8_RenderWithoutSelectionAborts ==
    (call.op = "render_current_es2_gpu_geometry" /\ pre.current = NULL) =>
        /\ status = "aborted"
        /\ gl_calls = << >>
        /\ gl = pre.gl

\* render_current_es2_gpu_geometry has just run although the latest
\* set_es2_gpu_geometry_current, on existing geometry, was given nullptr
C8_Witness ==
    /\ call.op = "render_current_es2_gpu_geometry"
    /\ pre.current = NULL
    /\ history.selections # << >>
    /\ DOMAIN geometries # {}

\* The device's primitive for each geometry type
PrimitiveKind ==
    [type \in {"Points", "Lines", "LineLoop", "LineStrip", "Triangles",
               "TriangleFan", "TriangleStrip"} |->
        CASE type = "Points" -> "GL_POINTS"
          [] type = "Lines" -> "GL_LINES"
          [] type = "LineLoop" -> "GL_LINE_LOOP"
          [] type = "LineStrip" -> "GL_LINE_STRIP"
          [] type = "Triangles" -> "GL_TRIANGLES"
          [] type = "TriangleFan" -> "GL_TRIANGLE_FAN"
          [] type = "TriangleStrip" -> "GL_TRIANGLE_STRIP"]

\* C9: the current selection is the argument of the latest
\* set_es2_gpu_geometry_current call, and a render_current_es2_gpu_geometry
\* that returns has ended with an indexed draw of that object's primitive
\* kind and of the number of indices it was generated from.
C9_DrawsLatestSelection ==
    /\ current_gpu_geometry = LatestSelection
    /\ (call.op = "render_current_es2_gpu_geometry" /\ status = "running") =>
           LET draw == gl_calls[Len(gl_calls)]
               given == history.created[LatestSelection]
           IN  /\ draw[1] = "glDrawElements"
               /\ draw[2] = PrimitiveKind[given.type]
               /\ draw[3] = given.indices

\* render_current_es2_gpu_geometry has just drawn after object a, then object
\* b of another type and index count, were selected
C9_Witness ==
    /\ call.op = "render_current_es2_gpu_geometry"
    /\ status = "running"
    /\ history.selections = <<"a", "b">>
    /\ history.created["a"].type # history.created["b"].type
    /\ history.created["a"].indices # history.created["b"].indices
    /\ history.created["b"].indices # history.created["b"].vertices

Constructed(geometry) ==
    /\ geometry.vertex_array_object # 0
    /\ geometry.vertex_buffer_object # 0
    /\ geometry.index_buffer_object # 0

Destroyed(geometry) ==
    /\ geometry.vertex_array_object = 0
    /\ geometry.vertex_buffer_object = 0
    /\ geometry.index_buffer_object = 0

\* C10: every GPUGeometry the caller holds has its three handles all set or
\* all 0; all are set in the one generate_es2_gpu_geometry returned, all are
\* 0 in the one destroy_es2_gpu_geometry was given.
C10_GeometryConstructedOrDestroyed ==
    /\ \A g \in DOMAIN geometries :
           Constructed(geometries[g]) \/ Destroyed(geometries[g])
    /\ call.op = "generate_es2_gpu_geometry" => Constructed(geometries[call.arg.object])
    /\ call.op = "destroy_es2_gpu_geometry" => Destroyed(geometries[call.arg])

\* destroy_es2_gpu_geometry has just been given a constructed object, while
\* the caller holds another that is still constructed
C10_Witness ==
    /\ call.op = "destroy_es2_gpu_geometry"
    /\ Constructed(pre.geometries[call.arg])
    /\ \E g \in DOMAIN geometries : Constructed(geometries[g])


-----------------------------------------------------------------------------
(* Rotation order, checked under SpecTransform.                            *)

\* The rotation matrices about the y, x and z axes
Ry(angle) == glm_rotate(IdentityMatrix, angle, AxisY)

Rx(angle) == glm_rotate(IdentityMatrix, angle, AxisX)

Rz(angle) == glm_rotate(IdentityMatrix, angle, AxisZ)

\* C12: rotate_matrix((x, y, z)) on a non-empty current stack replaces its
\* top T by T * Ry(y) * Rx(x) * Rz(z) and leaves the depth and the matrices
\* below the top as they were.
C12_RotateMatrix ==
    (call.op = "rotate_matrix" /\ ~call.ub) =>
        LET T == PreStack[Len(PreStack)]
            x == call.arg[1]
            y == call.arg[2]
            z == call.arg[3]
        IN  /\ Len(PostStack) = Len(PreStack)
            /\ PostStack[Len(PostStack)] =
                   MatMul(MatMul(MatMul(T, Ry(y)), Rx(x)), Rz(z))
            /\ \A i \in 1..(Len(PreStack) - 1) : PostStack[i] = PreStack[i]

\* rotate_matrix has just run, all three angles other than zero, on a stack
\* of depth two whose top was neither the identity nor the matrix below it
C12_Witness ==
    /\ call.op = "rotate_matrix"
    /\ ~call.ub
    /\ \A i \in 1..3 : call.arg[i] # 0
    /\ Len(PreStack) = 2
    /\ PreStack[2] # IdentityMatrix
    /\ PreStack[2] # PreStack[1]
    /\ PostStack[2] # PreStack[2]

-----------------------------------------------------------------------------
(* Calls before the session start, and push / pop pairs, checked under     *)
(* SpecTransform.                                                          *)

\* C18: from process start on, every push_matrix, pop_matrix, load_matrix,
\* translate_matrix, rotate_matrix, scale_matrix and
\* render_current_es2_gpu_geometry call finds the stacks it reads non-empty:
\* none applies top() or pop() to an empty stack.
C18_NoTopOrPopOfEmptyStack ==
    call.op \in StackCalls \cup {"render_current_es2_gpu_geometry"} => ~call.ub

\* C19: after prepare_for_es2_rendering, a pop_matrix that answers a
\* push_matrix on the same stack, with only load, translate, rotate and
\* scale calls and answered push / pop pairs on that stack in between,
\* leaves the stack exactly as it was before that push_matrix.
C19_PushPopRestores ==
    (history.prepared /\ call.op = "pop_matrix" /\ history.restores # << >>) =>
        PostStack = history.restores

\* pop_matrix has just answered a push_matrix made on a stack whose top was
\* not the identity, after calls in between that left another matrix on top
C19_Witness ==
    /\ history.prepared
    /\ call.op = "pop_matrix"
    /\ history.restores # << >>
    /\ Top(history.restores) # IdentityMatrix
    /\ Top(PreStack) # Top(history.restores)
    /\ PostStack = history.restores

-----------------------------------------------------------------------------
(* Selection, allocation and vertex layout of GPU geometry, checked under  *)
(* SpecGeometry.                                                           *)

\* In state st, the object selected as current is a destroyed one
SelectedDestroyed(st) ==
    /\ st.current \in DOMAIN st.geometries
    /\ Destroyed(st.geometries[st.current])

\* C13 as claimed: in no reachable state is the object selected as current a
\* destroyed one, and render_current_es2_gpu_geometry never issues a draw
\* for a destroyed object.
C13_NoDestroyedSelection ==
    /\ ~SelectedDestroyed(State)
    /\ (call.op = "render_current_es2_gpu_geometry" /\ DrawIssued) =>
           ~SelectedDestroyed(pre)

\* C13, amended: the object selected as current is a destroyed one only from
\* the call on in which the caller gave destroy_es2_gpu_geometry the selected
\* object, or gave set_es2_gpu_geometry_current a destroyed object; no other
\* call, render_current_es2_gpu_geometry included, makes the selection a
\* destroyed object.
C13_DestroyedSelectionOnlyByCaller ==
    SelectedDestroyed(State) =>
        \/ SelectedDestroyed(pre)
        \/ call.op = "destroy_es2_gpu_geometry" /\ call.arg = pre.current
        \/ /\ call.op = "set_es2_gpu_geometry_current"
           /\ call.arg \in DOMAIN pre.geometries
           /\ Destroyed(pre.geometries[call.arg])

\* destroy_es2_gpu_geometry has just been given a constructed object other
\* than the selected one, which is still constructed
C13_Witness ==
    /\ call.op = "destroy_es2_gpu_geometry"
    /\ Constructed(pre.geometries[call.arg])
    /\ current_gpu_geometry \in DOMAIN geometries
    /\ call.arg # current_gpu_geometry
    /\ Constructed(geometries[current_gpu_geometry])

\* C14: generate_es2_gpu_geometry never returns normally with a GPUGeometry
\* one of whose device allocations (vertex array, vertex buffer data, index
\* buffer data) failed.
C14_GenerateFailsOnAllocationFailure ==
    (call.op = "generate_es2_gpu_geometry" /\ status = "running") =>
        LET geometry == geometries[call.arg.object]
        IN  /\ geometry.vertex_array_object \in DOMAIN gl.vertex_arrays
            /\ gl.buffers[geometry.vertex_buffer_object].data_store
            /\ gl.buffers[geometry.index_buffer_object].data_store
            /\ gl.error # "GL_OUT_OF_MEMORY"

\* C16: the vertex array generate_es2_gpu_geometry has set up has attribute
\* 0 enabled with 3 floats at offset 0 and attribute 1 with 4 floats after
\* them, both at a stride of 7 floats in the vertex buffer, whatever calls
\* came before.
C16_AttributeSlotsZeroAndOne ==
    call.op = "generate_es2_gpu_geometry" =>
        LET geometry == geometries[call.arg.object]
            stride == 7 * SizeofFloat
        IN  gl.vertex_arrays[geometry.vertex_array_object].attribs =
                { [index |-> 0, size |-> 3, stride |-> stride, offset |-> 0,
                   buffer |-> geometry.vertex_buffer_object],
                  [index |-> 1, size |-> 4, stride |-> stride,
                   offset |-> 3 * SizeofFloat,
                   buffer |-> geometry.vertex_buffer_object] }

\* C17: once a constructed object is selected as current and its vertex
\* array bound, a generate_es2_gpu_geometry or destroy_es2_gpu_geometry call
\* on another object leaves that vertex array bound on the device, and it is
\* the one bound when render_current_es2_gpu_geometry issues its draw.
C17_SelectedVertexArrayBound ==
    /\ (/\ \/ call.op = "generate_es2_gpu_geometry" /\ call.arg.object # pre.current
           \/ call.op = "destroy_es2_gpu_geometry" /\ call.arg # pre.current
        /\ pre.current \in DOMAIN pre.geometries
        /\ Constructed(pre.geometries[pre.current])
        /\ pre.gl.vertex_array_binding = pre.geometries[pre.current].vertex_array_object) =>
           gl.vertex_array_binding = pre.geometries[pre.current].vertex_array_object
    /\ (/\ call.op = "render_current_es2_gpu_geometry"
        /\ DrawIssued
        /\ Constructed(pre.geometries[pre.current])) =>
           gl_calls[Len(gl_calls)][5] = pre.geometries[pre.current].vertex_array_object

-----------------------------------------------------------------------------
(* Device flags and shader identifiers, checked under SpecDevice.          *)

\* C15: when prepare_for_es2_rendering has returned, depth testing and face
\* culling are both disabled on the device, whatever enable_depth_test and
\* enable_face_culling calls came before.
C15_PrepareDisablesDepthAndCulling ==
    call.op = "prepare_for_es2_rendering" =>
        /\ ~gl.depth_test
        /\ ~gl.cull_face

\* The latest call wrote a uniform
UniformWritten ==
    \E i \in 1..Len(gl_calls) : gl_calls[i][1] \in {"glUniform1f", "glUniformMatrix4fv"}

\* C20: destroy_es2_shader_program leaves the program handle 0 and the
\* position, color, time and MVP locations all -1, and a
\* render_current_es2_gpu_geometry that finds the program handle 0 writes
\* neither the time uniform nor the MVP uniform.
C20_DestroyResetsShaderIdentifiers ==
    /\ call.op = "destroy_es2_shader_program" =>
           /\ shader.program = 0
           /\ shader.position = -1
           /\ shader.color = -1
           /\ shader.time = -1
           /\ shader.mvp = -1
    /\ (call.op = "render_current_es2_gpu_geometry" /\ pre.shader.program = 0) =>
           ~UniformWritten

-----------------------------------------------------------------------------
(* The matrix written by the draw, checked under SpecDraw.                 *)

\* The matrices the latest call wrote with glUniformMatrix4fv, by location
MatricesWritten ==
    { <<gl_calls[i][2], gl_calls[i][3]>> :
          i \in {j \in 1..Len(gl_calls) : gl_calls[j][1] = "glUniformMatrix4fv"} }

\* C11: where the shader program has an MVP uniform,
\* render_current_es2_gpu_geometry writes to it
\* top(projection stack) * inverse(top(view stack)) * top(model stack),
\* whichever stack set_matrix_mode selected; inverse(V) * V is the identity,
\* and with the view and projection tops the identity the matrix written is
\* the model stack's top.
C11_ModelViewProjection ==
    (/\ call.op = "render_current_es2_gpu_geometry"
     /\ ~call.ub
     /\ status = "running"
     /\ pre.shader.mvp # -1) =>
        LET M == Top(pre.model)
            V == Top(pre.view)
            P == Top(pre.projection)
        IN  /\ MatricesWritten =
                   {<<pre.shader.mvp, MatMul(MatMul(P, glm_inverse(V)), M)>>}
            /\ MatMul(glm_inverse(V), V) = IdentityMatrix
            /\ (V = IdentityMatrix /\ P = IdentityMatrix) =>
                   MatricesWritten = {<<pre.shader.mvp, M>>}

\* render_current_es2_gpu_geometry has just written the MVP uniform with the
\* view stack selected, the model and view tops both other than the
\* identity and other than each other's inverse
C11_Witness ==
    /\ call.op = "render_current_es2_gpu_geometry"
    /\ ~call.ub
    /\ status = "running"
    /\ pre.shader.mvp # -1
    /\ pre.mode = "View"
    /\ Top(pre.model) # IdentityMatrix
    /\ Top(pre.view) # IdentityMatrix
    /\ Top(pre.view) # glm_inverse(Top(pre.view))
    /\ MatricesWritten # {<<pre.shader.mvp, Top(pre.model)>>}
    /\ MatricesWritten # {}

====
